---- MODULE Spec2Model ----
(***************************************************************************)
(* Library Management API (src/main.py, src/schemas.py).                   *)
(*                                                                         *)
(* The state is the three collections of the document store ("book",       *)
(* "member", "loan"), the local variables of every request in flight and   *)
(* the last response sent.  Every handler is a sequence of steps, one per  *)
(* store call; the local computation that follows a store call (the        *)
(* checks on what it returned, the raise of an HTTPException) belongs to   *)
(* the step of that call.  A step is named after the handler and the       *)
(* source line of its store call.                                          *)
(*                                                                         *)
(* Documents keep only the fields the handlers decide on: the copy counts  *)
(* of a book, the email of a member, the references, the due date and the  *)
(* returned flag of a loan.  Titles, names, tags and the created_at /      *)
(* updated_at stamps are left out; the creation order of the documents is  *)
(* the order of their ObjectIds.  create_document of database.py is the    *)
(* insertOne of the store contract: it adds the document under a new       *)
(* ObjectId and returns that id as str() prints it.                        *)
(***************************************************************************)
EXTENDS Integers, Sequences, FiniteSets, TLC

\* ------------------------------------------------------------------ bounds
MaxBooks   == 2          \* ObjectIds ever generated for the "book" collection
MaxMembers == 2          \* ... for the "member" collection
MaxLoans   == 2          \* ... for the "loan" collection
MaxCopies  == 2          \* largest copy count a request supplies
NumProcs   == 2          \* requests that can be in flight together

\* ------------------------------------------------------- program constants
DefaultDays == 14        \* BorrowRequest.days
DefaultCopies == 1       \* CreateBook.total_copies / available_copies, Book
MinCopies == 0           \* Field(ge=0) of Book.total_copies / available_copies
MinDays == 1             \* max(1, payload.days)
\* datetime.max is the end of 9999-12-31: for a request of 2026-11-02,
\* utcnow() + timedelta(days) exists for days up to this many.
DaysToMaxDate == 2912137

\* The request slots and the emails members sign up with.
Procs  == 1 .. NumProcs
Emails == {"a@lib", "b@lib"}

\* ------------------------------------------------------------- identities
\* An ObjectId is a number; the three collections draw theirs from disjoint
\* ranges, as generated ObjectIds never collide.
BookOids   == 1 .. MaxBooks
MemberOids == 11 .. (10 + MaxMembers)
LoanOids   == 21 .. (20 + MaxLoans)

\* An id travels as a string.  ObjectId(s) accepts the 24 hex digits in
\* either letter case and str(oid) prints them in lower case, so one ObjectId
\* has several spellings: <<oid, "lc">> is the one str() prints, <<oid, "uc">>
\* the same digits in upper case.  BadId is a string ObjectId() rejects.
str(oid)   == <<oid, "lc">>
Upper(oid) == <<oid, "uc">>
BadId      == <<0, "bad">>

\* to_object_id: ObjectId(id_str), or HTTP 400 when ObjectId raises.
ValidId(id_str)      == id_str[2] \in {"lc", "uc"}
to_object_id(id_str) == id_str[1]

\* --------------------------------------------------------------- the state
VARIABLES
  book,      \* collection "book":   _id -> [total_copies, available_copies]
  member,    \* collection "member": _id -> [email]
  loan,      \* collection "loan":   _id -> [member_id, book_id, due_date, returned]
  counter,   \* ObjectIds generated so far, per collection
  pc,        \* per request slot: "idle" or the step it is to take next
  loc,       \* per request slot: the local variables of the handler
  last       \* the response of the request that completed last

vars == <<book, member, loan, counter, pc, loc, last>>
db   == <<book, member, loan>>

NoLoc  == [op |-> "none"]
NoResp == [proc |-> 0, op |-> "none", status |-> 0, detail |-> "", body |-> <<>>]

\* The response a handler returns (status 200) or raises (HTTPException).
Response(p, op, status, detail, body) ==
  [proc |-> p, op |-> op, status |-> status, detail |-> detail, body |-> body]

\* serialize: "_id" becomes "id", printed with str().
serialize(oid, doc) == [id |-> str(oid)] @@ doc

\* ------------------------------------------------------ the document store
\* insert of create_document: the new document under a generated ObjectId.
InsertOne(coll, oid, doc) == (oid :> doc) @@ coll

\* update_one with $inc on available_copies; matches nothing when the
\* document is absent.
IncAvailable(oid, n) ==
  IF oid \in DOMAIN book
  THEN [book EXCEPT ![oid].available_copies = @ + n]
  ELSE book

\* delete_one.
DeleteOne(coll, oid) == [x \in DOMAIN coll \ {oid} |-> coll[x]]

Max(a, b) == IF a >= b THEN a ELSE b

\* The ObjectId create_document generates next in a collection.
NextBookOid   == counter.book + 1
NextMemberOid == 10 + counter.member + 1
NextLoanOid   == 20 + counter.loan + 1

\* --------------------------------------------------------------- responses
\* A request ends: its response is recorded and its slot is free again.
Finish(p, op, status, detail, body) ==
  /\ pc'   = [pc  EXCEPT ![p] = "idle"]
  /\ loc'  = [loc EXCEPT ![p] = NoLoc]
  /\ last' = Response(p, op, status, detail, body)

\* A request moves on to its next store call; the response on record is the
\* one of the latest completed request as long as no request ran since.
Goto(p, step, locals) ==
  /\ pc'   = [pc  EXCEPT ![p] = step]
  /\ loc'  = [loc EXCEPT ![p] = locals]
  /\ last' = NoResp

\* ------------------------------------------------------------ borrow_book
\* borrow_book_257 with the copies test written "< 0" in place of "<= 0".
borrow_book_257_lt(p, member_id, book_id, days) ==
  /\ pc[p] = "idle"
  /\ UNCHANGED <<book, member, loan, counter>>
  /\ IF ~ValidId(book_id)
     THEN Finish(p, "borrow_book", 400, "Invalid ID format", <<>>)
     ELSE IF to_object_id(book_id) \notin DOMAIN book
     THEN Finish(p, "borrow_book", 404, "Book not found", <<>>)
     ELSE IF book[to_object_id(book_id)].available_copies < 0
     THEN Finish(p, "borrow_book", 400, "No copies available", <<>>)
     ELSE Goto(p, "borrow_book_264",
               [op |-> "borrow_book", member_id |-> member_id,
                book_id |-> book_id, days |-> days])

\* borrow_book_257 that takes the copy as it checks for it (a
\* find_one_and_update with $inc -1), ahead of the member check.
borrow_book_257_takes(p, member_id, book_id, days) ==
  /\ pc[p] = "idle"
  /\ UNCHANGED <<member, loan, counter>>
  /\ IF ~ValidId(book_id)
     THEN /\ book' = book
          /\ Finish(p, "borrow_book", 400, "Invalid ID format", <<>>)
     ELSE IF to_object_id(book_id) \notin DOMAIN book
     THEN /\ book' = book
          /\ Finish(p, "borrow_book", 404, "Book not found", <<>>)
     ELSE IF book[to_object_id(book_id)].available_copies <= 0
     THEN /\ book' = book
          /\ Finish(p, "borrow_book", 400, "No copies available", <<>>)
     ELSE /\ book' = IncAvailable(to_object_id(book_id), -1)
          /\ Goto(p, "borrow_book_264",
                  [op |-> "borrow_book", member_id |-> member_id,
                   book_id |-> book_id, days |-> days])

\* line 257-261: find the book, "Book not found", "No copies available".
borrow_book_257(p, member_id, book_id, days) ==
  /\ pc[p] = "idle"
  /\ UNCHANGED <<book, member, loan, counter>>
  /\ IF ~ValidId(book_id)
     THEN Finish(p, "borrow_book", 400, "Invalid ID format", <<>>)
     ELSE IF to_object_id(book_id) \notin DOMAIN book
     THEN Finish(p, "borrow_book", 404, "Book not found", <<>>)
     ELSE IF book[to_object_id(book_id)].available_copies <= 0
     THEN Finish(p, "borrow_book", 400, "No copies available", <<>>)
     ELSE Goto(p, "borrow_book_264",
               [op |-> "borrow_book", member_id |-> member_id,
                book_id |-> book_id, days |-> days])

\* line 264-266: find the member, "Member not found".
borrow_book_264(p) ==
  /\ pc[p] = "borrow_book_264"
  /\ UNCHANGED <<book, member, loan, counter>>
  /\ IF ~ValidId(loc[p].member_id)
     THEN Finish(p, "borrow_book", 400, "Invalid ID format", <<>>)
     ELSE IF to_object_id(loc[p].member_id) \notin DOMAIN member
     THEN Finish(p, "borrow_book", 404, "Member not found", <<>>)
     ELSE Goto(p, "borrow_book_270", loc[p])

\* line 268-270: the due date and the insert of the loan document.
\* due_date is kept as the number of days after the request's utcnow().
\* utcnow() + timedelta(days) raises OverflowError past datetime.max and
\* nothing catches it: the request ends with status 500 before the insert.
borrow_book_270(p) ==
  /\ pc[p] = "borrow_book_270"
  /\ IF Max(MinDays, loc[p].days) > DaysToMaxDate
     THEN /\ UNCHANGED <<book, member, loan, counter>>
          /\ Finish(p, "borrow_book", 500, "Internal Server Error", <<>>)
     ELSE /\ counter.loan < MaxLoans
          /\ loan' = InsertOne(loan, NextLoanOid,
                               [member_id |-> loc[p].member_id,
                                book_id   |-> loc[p].book_id,
                                due_date  |-> Max(MinDays, loc[p].days),
                                returned  |-> FALSE])
          /\ counter' = [counter EXCEPT !.loan = @ + 1]
          /\ UNCHANGED <<book, member>>
          /\ Goto(p, "borrow_book_273",
                  [op |-> "borrow_book", book_id |-> loc[p].book_id,
                   loan_id |-> str(NextLoanOid)])

\* borrow_book_273 whose update_one has an empty filter in place of the _id:
\* it decrements the first book of the collection.
borrow_book_273_first(p) ==
  /\ pc[p] = "borrow_book_273"
  /\ book' = IncAvailable(CHOOSE b \in DOMAIN book : \A x \in DOMAIN book : b <= x, -1)
  /\ UNCHANGED <<member, loan, counter>>
  /\ Goto(p, "borrow_book_275",
          [op |-> "borrow_book", loan_id |-> loc[p].loan_id])

\* borrow_book_273 as a conditional update: the filter also asks for
\* available_copies > 0, so the decrement matches nothing on an empty shelf.
borrow_book_273_guarded(p) ==
  /\ pc[p] = "borrow_book_273"
  /\ LET b == to_object_id(loc[p].book_id)
     IN  book' = IF b \in DOMAIN book /\ book[b].available_copies > 0
                 THEN IncAvailable(b, -1)
                 ELSE book
  /\ UNCHANGED <<member, loan, counter>>
  /\ Goto(p, "borrow_book_275",
          [op |-> "borrow_book", loan_id |-> loc[p].loan_id])

\* line 273: decrement available_copies.
borrow_book_273(p) ==
  /\ pc[p] = "borrow_book_273"
  /\ book' = IncAvailable(to_object_id(loc[p].book_id), -1)
  /\ UNCHANGED <<member, loan, counter>>
  /\ Goto(p, "borrow_book_275",
          [op |-> "borrow_book", loan_id |-> loc[p].loan_id])

\* line 275-276: read the created loan back and return it.
borrow_book_275(p) ==
  /\ pc[p] = "borrow_book_275"
  /\ UNCHANGED <<book, member, loan, counter>>
  /\ LET oid == to_object_id(loc[p].loan_id)
     IN  Finish(p, "borrow_book", 200, "",
                IF oid \in DOMAIN loan THEN <<serialize(oid, loan[oid])>> ELSE <<>>)

\* ------------------------------------------------------------ return_book
\* return_book_280 without the "already returned" early return.
return_book_280_again(p, loan_id) ==
  /\ pc[p] = "idle"
  /\ UNCHANGED <<book, member, loan, counter>>
  /\ IF ~ValidId(loan_id)
     THEN Finish(p, "return_book", 400, "Invalid ID format", <<>>)
     ELSE IF to_object_id(loan_id) \notin DOMAIN loan
     THEN Finish(p, "return_book", 404, "Loan not found", <<>>)
     ELSE Goto(p, "return_book_287",
               [op |-> "return_book", loan_id |-> loan_id,
                book_id |-> loan[to_object_id(loan_id)].book_id])

\* line 280-284: find the loan, "Loan not found", already returned.
return_book_280(p, loan_id) ==
  /\ pc[p] = "idle"
  /\ UNCHANGED <<book, member, loan, counter>>
  /\ IF ~ValidId(loan_id)
     THEN Finish(p, "return_book", 400, "Invalid ID format", <<>>)
     ELSE IF to_object_id(loan_id) \notin DOMAIN loan
     THEN Finish(p, "return_book", 404, "Loan not found", <<>>)
     ELSE LET oid == to_object_id(loan_id)
          IN  IF loan[oid].returned
              THEN Finish(p, "return_book", 200, "", <<serialize(oid, loan[oid])>>)
              ELSE Goto(p, "return_book_287",
                        [op |-> "return_book", loan_id |-> loan_id,
                         book_id |-> loan[oid].book_id])

\* line 287: mark the loan returned.
return_book_287(p) ==
  /\ pc[p] = "return_book_287"
  /\ LET oid == to_object_id(loc[p].loan_id)
     IN  loan' = IF oid \in DOMAIN loan
                 THEN [loan EXCEPT ![oid].returned = TRUE]
                 ELSE loan
  /\ UNCHANGED <<book, member, counter>>
  /\ Goto(p, "return_book_292", loc[p])

\* return_book_292 that skips the increment on a book whose available_copies
\* is 0.
return_book_292_skip(p) ==
  /\ pc[p] = "return_book_292"
  /\ LET b == to_object_id(loc[p].book_id)
     IN  book' = IF b \in DOMAIN book /\ book[b].available_copies = 0
                 THEN book
                 ELSE IncAvailable(b, 1)
  /\ UNCHANGED <<member, loan, counter>>
  /\ Goto(p, "return_book_294",
          [op |-> "return_book", loan_id |-> loc[p].loan_id])

\* line 290-292: increment available_copies of the loan's book.
return_book_292(p) ==
  /\ pc[p] = "return_book_292"
  /\ book' = IncAvailable(to_object_id(loc[p].book_id), 1)
  /\ UNCHANGED <<member, loan, counter>>
  /\ Goto(p, "return_book_294",
          [op |-> "return_book", loan_id |-> loc[p].loan_id])

\* line 294-295: read the loan back and return it.
return_book_294(p) ==
  /\ pc[p] = "return_book_294"
  /\ UNCHANGED <<book, member, loan, counter>>
  /\ LET oid == to_object_id(loc[p].loan_id)
     IN  Finish(p, "return_book", 200, "",
                IF oid \in DOMAIN loan THEN <<serialize(oid, loan[oid])>> ELSE <<>>)

\* ------------------------------------------------------------ delete_book
\* The loans the filter {"book_id": book_id, "returned": False} matches: the
\* stored string is compared with the request's string as it was sent.
ActiveLoansOf(book_id) ==
  {l \in DOMAIN loan : loan[l].book_id = book_id /\ ~loan[l].returned}

\* line 177-180: the active-loan guard, then to_object_id of the path id.
delete_book_177(p, book_id) ==
  /\ pc[p] = "idle"
  /\ UNCHANGED <<book, member, loan, counter>>
  /\ IF ActiveLoansOf(book_id) # {}
     THEN Finish(p, "delete_book", 400, "Cannot delete book with active loans", <<>>)
     ELSE IF ~ValidId(book_id)
     THEN Finish(p, "delete_book", 400, "Invalid ID format", <<>>)
     ELSE Goto(p, "delete_book_180", [op |-> "delete_book", book_id |-> book_id])

\* delete_book_180 that also deletes the loans of the book it deletes.
delete_book_180_cascade(p) ==
  /\ pc[p] = "delete_book_180"
  /\ UNCHANGED <<member, counter>>
  /\ LET oid == to_object_id(loc[p].book_id)
     IN  IF oid \in DOMAIN book
         THEN /\ book' = DeleteOne(book, oid)
              /\ loan' = [l \in {x \in DOMAIN loan : to_object_id(loan[x].book_id) # oid}
                            |-> loan[l]]
              /\ Finish(p, "delete_book", 200, "deleted", <<[id |-> loc[p].book_id]>>)
         ELSE /\ book' = book
              /\ loan' = loan
              /\ Finish(p, "delete_book", 404, "Book not found", <<>>)

\* line 180-183: delete_one, "Book not found" when nothing was deleted.
delete_book_180(p) ==
  /\ pc[p] = "delete_book_180"
  /\ UNCHANGED <<member, loan, counter>>
  /\ LET oid == to_object_id(loc[p].book_id)
     IN  IF oid \in DOMAIN book
         THEN /\ book' = DeleteOne(book, oid)
              /\ Finish(p, "delete_book", 200, "deleted", <<[id |-> loc[p].book_id]>>)
         ELSE /\ book' = book
              /\ Finish(p, "delete_book", 404, "Book not found", <<>>)

\* ------------------------------------------------------------ create_book
\* Book(**book.model_dump()): both copy counts are validated with ge=0.
BookSchemaValid(total_copies, available_copies) ==
  total_copies >= MinCopies /\ available_copies >= MinCopies

\* line 136-137: validate and insert; a ValidationError is not caught and
\* ends the request with status 500.
create_book_136(p, total_copies, available_copies) ==
  /\ pc[p] = "idle"
  /\ UNCHANGED <<member, loan>>
  /\ IF ~BookSchemaValid(total_copies, available_copies)
     THEN /\ UNCHANGED <<book, counter>>
          /\ Finish(p, "create_book", 500, "Internal Server Error", <<>>)
     ELSE /\ counter.book < MaxBooks
          /\ book' = InsertOne(book, NextBookOid,
                               [total_copies     |-> total_copies,
                                available_copies |-> available_copies])
          /\ counter' = [counter EXCEPT !.book = @ + 1]
          /\ Goto(p, "create_book_138",
                  [op |-> "create_book", book_id |-> str(NextBookOid)])

\* line 138-139: read the created book back and return it.
create_book_138(p) ==
  /\ pc[p] = "create_book_138"
  /\ UNCHANGED <<book, member, loan, counter>>
  /\ LET oid == to_object_id(loc[p].book_id)
     IN  Finish(p, "create_book", 200, "",
                IF oid \in DOMAIN book THEN <<serialize(oid, book[oid])>> ELSE <<>>)

\* --------------------------------------------------- get_book, update_book
\* line 159-162, as an operator of the handler that calls it.
get_book(p, op, book_id) ==
  IF ~ValidId(book_id)
  THEN Finish(p, op, 400, "Invalid ID format", <<>>)
  ELSE IF to_object_id(book_id) \notin DOMAIN book
  THEN Finish(p, op, 404, "Book not found", <<>>)
  ELSE Finish(p, op, 200, "",
              <<serialize(to_object_id(book_id), book[to_object_id(book_id)])>>)

\* update_book_166 with the counts the update would leave checked first:
\* 0 <= available_copies <= total_copies, or nothing is written.
update_book_166_checked(p, book_id, update) ==
  /\ pc[p] = "idle"
  /\ UNCHANGED <<member, loan, counter>>
  /\ IF DOMAIN update = {}
     THEN /\ book' = book
          /\ get_book(p, "update_book", book_id)
     ELSE IF ~ValidId(book_id)
     THEN /\ book' = book
          /\ Finish(p, "update_book", 400, "Invalid ID format", <<>>)
     ELSE IF to_object_id(book_id) \notin DOMAIN book
     THEN /\ book' = book
          /\ Finish(p, "update_book", 404, "Book not found", <<>>)
     ELSE IF \/ (update @@ book[to_object_id(book_id)]).available_copies < MinCopies
             \/ (update @@ book[to_object_id(book_id)]).available_copies
                  > (update @@ book[to_object_id(book_id)]).total_copies
     THEN /\ book' = book
          /\ Finish(p, "update_book", 400, "Invalid copy counts", <<>>)
     ELSE /\ book' = [book EXCEPT ![to_object_id(book_id)] = update @@ @]
          /\ Goto(p, "update_book_173", [op |-> "update_book", book_id |-> book_id])

\* line 166-172.  update is the dict of the payload's fields that are not
\* None, here a function from the names of the supplied copy counts to their
\* values; $set writes them as they are.
update_book_166(p, book_id, update) ==
  /\ pc[p] = "idle"
  /\ UNCHANGED <<member, loan, counter>>
  /\ IF DOMAIN update = {}
     THEN /\ book' = book
          /\ get_book(p, "update_book", book_id)
     ELSE IF ~ValidId(book_id)
     THEN /\ book' = book
          /\ Finish(p, "update_book", 400, "Invalid ID format", <<>>)
     ELSE IF to_object_id(book_id) \notin DOMAIN book
     THEN /\ book' = book
          /\ Finish(p, "update_book", 404, "Book not found", <<>>)
     ELSE /\ book' = [book EXCEPT ![to_object_id(book_id)] = update @@ @]
          /\ Goto(p, "update_book_173", [op |-> "update_book", book_id |-> book_id])

\* line 173: return get_book(book_id).
update_book_173(p) ==
  /\ pc[p] = "update_book_173"
  /\ UNCHANGED <<book, member, loan, counter>>
  /\ get_book(p, "update_book", loc[p].book_id)

\* ---------------------------------------------------------- create_member
\* create_member_191 without the lookup by email.
create_member_191_nolookup(p, email) ==
  /\ pc[p] = "idle"
  /\ UNCHANGED <<book, member, loan, counter>>
  /\ Goto(p, "create_member_195", [op |-> "create_member", email |-> email])

\* line 191-193: lookup by email; an existing member is returned as it is.
create_member_191(p, email) ==
  /\ pc[p] = "idle"
  /\ UNCHANGED <<book, member, loan, counter>>
  /\ LET existing == {m \in DOMAIN member : member[m].email = email}
     IN  IF existing # {}
         THEN \E m \in existing :
                Finish(p, "create_member", 200, "", <<serialize(m, member[m])>>)
         ELSE Goto(p, "create_member_195", [op |-> "create_member", email |-> email])

\* line 194-195: insert the new member.
create_member_195(p) ==
  /\ pc[p] = "create_member_195"
  /\ counter.member < MaxMembers
  /\ member' = InsertOne(member, NextMemberOid, [email |-> loc[p].email])
  /\ counter' = [counter EXCEPT !.member = @ + 1]
  /\ UNCHANGED <<book, loan>>
  /\ Goto(p, "create_member_196",
          [op |-> "create_member", member_id |-> str(NextMemberOid)])

\* line 196-197: read the created member back and return it.
create_member_196(p) ==
  /\ pc[p] = "create_member_196"
  /\ UNCHANGED <<book, member, loan, counter>>
  /\ LET oid == to_object_id(loc[p].member_id)
     IN  Finish(p, "create_member", 200, "",
                IF oid \in DOMAIN member THEN <<serialize(oid, member[oid])>> ELSE <<>>)

\* ----------------------------------------------------------- active_loans
\* sort("created_at", -1): newest first, that is by descending ObjectId.
RECURSIVE SortDesc(_)
SortDesc(S) ==
  IF S = {} THEN <<>>
  ELSE LET m == CHOOSE x \in S : \A y \in S : y <= x
       IN  <<m>> \o SortDesc(S \ {m})

\* line 247-251: the loan with the snapshots of its book and its member (the
\* book's snapshot is kept as "found or None", the member's as its email).
Enrich(l) ==
  LET b == to_object_id(loan[l].book_id)
      m == to_object_id(loan[l].member_id)
  IN  serialize(l, loan[l]) @@
      [book   |-> b \in DOMAIN book,
       member |-> IF m \in DOMAIN member THEN <<member[m].email>> ELSE <<>>]

\* active_loans_find with an empty filter: every loan.
active_loans_find_all ==
  DOMAIN loan

\* line 244: find({"returned": False}).
active_loans_find ==
  {l \in DOMAIN loan : loan[l].returned = FALSE}

\* line 244-252, the whole query: it only reads.
active_loans_244(p) ==
  /\ pc[p] = "idle"
  /\ UNCHANGED <<book, member, loan, counter>>
  /\ LET loans == SortDesc(active_loans_find)
     IN  Finish(p, "active_loans", 200, "",
                [i \in 1 .. Len(loans) |-> Enrich(loans[i])])

\* ------------------------------------------------------------------ inputs
\* What the requests of the model send.  Ids are spelled as str() prints
\* them, the id of the first book also in upper case; the id of a document
\* not created yet, or deleted, is an unknown id.
BookIdInputs   == {str(b) : b \in BookOids} \cup {Upper(1), BadId}
MemberIdInputs == {str(m) : m \in MemberOids} \cup {BadId}
LoanIdInputs   == {str(l) : l \in LoanOids} \cup {BadId}
CopyInputs     == (MinCopies - 1) .. MaxCopies
DaysInputs     == {DefaultDays}
UpdateInputs   ==
  UNION {[D -> CopyInputs] : D \in SUBSET {"total_copies", "available_copies"}}

\* The smaller choice of the specification that runs every handler: a book is
\* created with the default counts or with an invalid one, an update supplies
\* nothing or available_copies alone, as MinCopies, and every member signs up
\* with the same email.
SeqCopyInputs   == {MinCopies - 1, DefaultCopies}
SeqUpdateInputs == {<<>>, [available_copies |-> MinCopies]}
SeqEmails       == {"a@lib"}

\* The smaller choice of the specification that interleaves requests: all of
\* them are after the first book, in the name of a member on record or not.
ConcBookIdInputs   == {str(1)}
ConcMemberIdInputs == {str(m) : m \in MemberOids}

\* -------------------------------------------------- the initial conditions
NoRequests ==
  /\ pc   = [p \in Procs |-> "idle"]
  /\ loc  = [p \in Procs |-> NoLoc]
  /\ last = NoResp

\* The store is empty and no request is in flight.
Init ==
  /\ book    = <<>>
  /\ member  = <<>>
  /\ loan    = <<>>
  /\ counter = [book |-> 0, member |-> 0, loan |-> 0]
  /\ NoRequests

\* ------------------------------------------- requests that run one at a time
\* One request slot: a request starts when the one before it has responded.
One == 1

\* Every handler that writes, and the active-loans query.
NextSeq ==
  \/ \E t \in SeqCopyInputs, a \in SeqCopyInputs : create_book_136(One, t, a)
  \/ create_book_138(One)
  \/ \E b \in BookIdInputs, u \in SeqUpdateInputs : update_book_166(One, b, u)
  \/ update_book_173(One)
  \/ \E b \in BookIdInputs : delete_book_177(One, b)
  \/ delete_book_180(One)
  \/ \E e \in SeqEmails : create_member_191(One, e)
  \/ create_member_195(One)
  \/ create_member_196(One)
  \/ active_loans_244(One)
  \/ \E m \in MemberIdInputs, b \in BookIdInputs, d \in DaysInputs :
       borrow_book_257(One, m, b, d)
  \/ borrow_book_264(One)
  \/ borrow_book_270(One)
  \/ borrow_book_273(One)
  \/ borrow_book_275(One)
  \/ \E l \in LoanIdInputs : return_book_280(One, l)
  \/ return_book_287(One)
  \/ return_book_292(One)
  \/ return_book_294(One)

SpecSeq == Init /\ [][NextSeq]_vars

\* ------------------------------------------------ the loan lifecycle alone
\* Every book of BookOids is in stock, all with the same counts, any with
\* 0 <= available <= total; the first member has signed up, and the only
\* requests are Borrow, Return and the active-loans query, one at a time.
InitLife ==
  /\ \E d \in {x \in [total_copies : MinCopies .. MaxCopies,
                      available_copies : MinCopies .. MaxCopies] :
                  x.available_copies <= x.total_copies} :
       book = [b \in BookOids |-> d]
  /\ member  = (11 :> [email |-> "a@lib"])
  /\ loan    = <<>>
  /\ counter = [book |-> MaxBooks, member |-> 1, loan |-> 0]
  /\ NoRequests

NextLife ==
  \/ active_loans_244(One)
  \/ \E m \in MemberIdInputs, b \in BookIdInputs, d \in DaysInputs :
       borrow_book_257(One, m, b, d)
  \/ borrow_book_264(One)
  \/ borrow_book_270(One)
  \/ borrow_book_273(One)
  \/ borrow_book_275(One)
  \/ \E l \in LoanIdInputs : return_book_280(One, l)
  \/ return_book_287(One)
  \/ return_book_292(One)
  \/ return_book_294(One)

SpecLife == InitLife /\ [][NextLife]_vars

\* ------------------------------------------------------- members sign up
\* One book is in stock and nobody has signed up; members sign up, borrow and
\* return, one request at a time.
InitMember ==
  /\ book    = (1 :> [total_copies |-> MaxCopies, available_copies |-> MaxCopies])
  /\ member  = <<>>
  /\ loan    = <<>>
  /\ counter = [book |-> 1, member |-> 0, loan |-> 0]
  /\ NoRequests

NextMember ==
  \/ \E e \in Emails : create_member_191(One, e)
  \/ create_member_195(One)
  \/ create_member_196(One)
  \/ active_loans_244(One)
  \/ \E m \in MemberIdInputs, d \in DaysInputs : borrow_book_257(One, m, str(1), d)
  \/ borrow_book_264(One)
  \/ borrow_book_270(One)
  \/ borrow_book_273(One)
  \/ borrow_book_275(One)
  \/ \E l \in LoanIdInputs : return_book_280(One, l)
  \/ return_book_287(One)
  \/ return_book_292(One)
  \/ return_book_294(One)

SpecMember == InitMember /\ [][NextMember]_vars

\* ------------------------------------------------- requests that interleave
\* Every book of BookOids is in stock with the default counts (one copy, on
\* the shelf) and the first member has signed up.  Borrow and Return requests
\* run in NumProcs slots and interleave at every store call.
InitConc ==
  /\ book    = [b \in BookOids |-> [total_copies     |-> DefaultCopies,
                                    available_copies |-> DefaultCopies]]
  /\ member  = (11 :> [email |-> "a@lib"])
  /\ loan    = <<>>
  /\ counter = [book |-> MaxBooks, member |-> 1, loan |-> 0]
  /\ NoRequests

NextConc ==
  \E p \in Procs :
    \/ \E m \in ConcMemberIdInputs, b \in ConcBookIdInputs, d \in DaysInputs :
         borrow_book_257(p, m, b, d)
    \/ borrow_book_264(p)
    \/ borrow_book_270(p)
    \/ borrow_book_273(p)
    \/ borrow_book_275(p)
    \/ \E l \in LoanIdInputs : return_book_280(p, l)
    \/ return_book_287(p)
    \/ return_book_292(p)
    \/ return_book_294(p)

SpecConc == InitConc /\ [][NextConc]_vars

\* ================================================================== claims
\* No request is in flight.
Quiescent == \A p \in Procs : pc[p] = "idle"

\* The loans that reference a book (through the ObjectId their book_id
\* spells) and are not returned.
OpenLoans(b) ==
  {l \in DOMAIN loan : to_object_id(loan[l].book_id) = b /\ ~loan[l].returned}

\* C1: a Borrow request for an existing book whose available_copies is 0 (or
\* less) ends at once with status 400 "No copies available" and writes
\* nothing, whatever total_copies is and whichever member id it names.
C1_NoCopiesIsInvalidState ==
  [][\A m \in MemberIdInputs, b \in BookIdInputs, d \in DaysInputs :
       ( /\ borrow_book_257(One, m, b, d)
         /\ ValidId(b)
         /\ to_object_id(b) \in DOMAIN book
         /\ book[to_object_id(b)].available_copies <= 0 )
       => /\ pc'[One] = "idle"
          /\ last'.op = "borrow_book"
          /\ last'.status = 400
          /\ last'.detail = "No copies available"
          /\ db' = db]_vars

\* C1's case: a Borrow was refused for lack of copies on a book that owns
\* copies, all of them lent out.
C1_Witness ==
  /\ last.op = "borrow_book"
  /\ last.detail = "No copies available"
  /\ \E b \in DOMAIN book :
       /\ book[b].available_copies = 0
       /\ book[b].total_copies > 0
       /\ OpenLoans(b) # {}

\* C2: a Return that completes leaves its loan returned, and a Return of a
\* loan that is already returned changes nothing in the store and answers
\* 200 with that loan: the second call leaves the state of the first.
C2_ReturnIdempotent ==
  [][\A l \in LoanIdInputs :
       /\ ( /\ return_book_280(One, l)
            /\ ValidId(l)
            /\ to_object_id(l) \in DOMAIN loan
            /\ loan[to_object_id(l)].returned )
          => /\ db' = db
             /\ pc'[One] = "idle"
             /\ last'.status = 200
             /\ last'.body = <<serialize(to_object_id(l), loan[to_object_id(l)])>>
       /\ ( /\ return_book_294(One)
            /\ loc[One].loan_id = l )
          => /\ last'.status = 200
             /\ loan'[to_object_id(l)].returned
             /\ last'.body[1].returned]_vars

\* C2's case: a second Return of the same loan has just answered, and the
\* book has all its copies back.
C2_Witness ==
  /\ last.op = "return_book"
  /\ last.status = 200
  /\ counter.loan = 1
  /\ loan[21].returned
  /\ \E b \in DOMAIN book :
       /\ to_object_id(loan[21].book_id) = b
       /\ book[b].available_copies = book[b].total_copies
       /\ book[b].total_copies > 0

\* C3: round trip.  Whatever available_copies a book starts with, it has
\* that value again in every state between requests in which all the loans
\* borrowed on it since have been returned.
C3_RoundTrip ==
  \A b \in BookOids, v \in MinCopies .. MaxCopies :
    (book[b].available_copies = v)
      => []( (Quiescent /\ OpenLoans(b) = {}) => book[b].available_copies = v )

\* C3's case: a book that was lent and given back twice has no open loan and
\* counts copies available.
C3_Witness ==
  /\ Quiescent
  /\ \E b \in DOMAIN book :
       /\ OpenLoans(b) = {}
       /\ book[b].available_copies > 0
       /\ \A l \in LoanOids :
            /\ l \in DOMAIN loan
            /\ to_object_id(loan[l].book_id) = b
            /\ loan[l].returned

\* C5: in every state reached by Borrow and Return requests, run one at a
\* time, from books in stock with 0 <= available_copies <= total_copies, every
\* book has 0 <= available_copies <= total_copies.
C5_CopiesWithinBounds ==
  \A b \in DOMAIN book :
    /\ MinCopies <= book[b].available_copies
    /\ book[b].available_copies <= book[b].total_copies

\* C5's case: between requests a book is at both ends of the range over its
\* life: all its copies are back after a loan that emptied the shelf.
C5_Witness ==
  /\ Quiescent
  /\ \E b \in DOMAIN book :
       /\ book[b].total_copies = 1
       /\ book[b].available_copies = 1
       /\ \E l \in DOMAIN loan :
            to_object_id(loan[l].book_id) = b /\ loan[l].returned

\* C7: the effect of a Borrow, store call by store call.  The checks write
\* nothing and let the request through only for an available book and the
\* ids it was sent; the insert adds exactly one loan, with those ids and
\* returned = FALSE, and touches no other document; the decrement takes
\* exactly 1 from available_copies of exactly that book and touches nothing
\* else; the response is the new loan under its generated id.
C7_BorrowEffect ==
  [][/\ \A m \in MemberIdInputs, b \in BookIdInputs, d \in DaysInputs :
          borrow_book_257(One, m, b, d)
          => /\ db' = db
             /\ pc'[One] # "idle"
                => /\ book[to_object_id(b)].available_copies > 0
                   /\ loc'[One].member_id = m
                   /\ loc'[One].book_id = b
     /\ borrow_book_264(One)
          => /\ db' = db
             /\ pc'[One] # "idle"
                => /\ to_object_id(loc[One].member_id) \in DOMAIN member
                   /\ loc'[One].member_id = loc[One].member_id
                   /\ loc'[One].book_id = loc[One].book_id
     /\ borrow_book_270(One)
          => /\ book' = book
             /\ member' = member
             /\ Cardinality(DOMAIN loan') = Cardinality(DOMAIN loan) + 1
             /\ \A l \in DOMAIN loan : l \in DOMAIN loan' /\ loan'[l] = loan[l]
             /\ \A l \in DOMAIN loan' \ DOMAIN loan :
                  /\ loan'[l].member_id = loc[One].member_id
                  /\ loan'[l].book_id = loc[One].book_id
                  /\ loan'[l].returned = FALSE
                  /\ loc'[One].loan_id = str(l)
             /\ loc'[One].book_id = loc[One].book_id
     /\ borrow_book_273(One)
          => /\ loan' = loan
             /\ member' = member
             /\ DOMAIN book' = DOMAIN book
             /\ \A x \in DOMAIN book :
                  IF x = to_object_id(loc[One].book_id)
                  THEN /\ book'[x].available_copies = book[x].available_copies - 1
                       /\ book'[x].total_copies = book[x].total_copies
                  ELSE book'[x] = book[x]
             /\ to_object_id(loc[One].book_id) \in DOMAIN book
             /\ loc'[One].loan_id = loc[One].loan_id
     /\ borrow_book_275(One)
          => /\ db' = db
             /\ last'.status = 200
             /\ last'.body = <<serialize(to_object_id(loc[One].loan_id),
                                         loan[to_object_id(loc[One].loan_id)])>>
             /\ last'.body[1].returned = FALSE]_vars

\* C7's case: a book that had two copies available was borrowed twice, by
\* now it has none, the second loan was just handed out and the other book
\* still has all its copies.
C7_Witness ==
  /\ last.op = "borrow_book"
  /\ last.status = 200
  /\ last.body[1].id = str(22)
  /\ \E b \in DOMAIN book :
       /\ book[b].total_copies = 2
       /\ book[b].available_copies = 0
       /\ OpenLoans(b) = {21, 22}
       /\ \E x \in DOMAIN book \ {b} :
            book[x].available_copies = book[x].total_copies /\ book[x].total_copies > 0

\* C10: the active-loans query answers 200 with exactly the loans whose
\* returned flag is false, each once, and writes nothing.
C10_ActiveLoansExact ==
  [][active_loans_244(One)
       => /\ db' = db
          /\ last'.op = "active_loans"
          /\ last'.status = 200
          /\ {last'.body[i].id : i \in 1 .. Len(last'.body)}
               = {str(l) : l \in {x \in DOMAIN loan : ~loan[x].returned}}
          /\ Len(last'.body) = Cardinality({x \in DOMAIN loan : ~loan[x].returned})
          /\ \A i \in 1 .. Len(last'.body) : ~last'.body[i].returned]_vars

\* C10's case: of two loans one was returned; the query lists the other one
\* alone.
C10_Witness ==
  /\ last.op = "active_loans"
  /\ Len(last.body) = 1
  /\ counter.loan = 2
  /\ \E l \in DOMAIN loan : loan[l].returned
  /\ \E l \in DOMAIN loan : ~loan[l].returned /\ last.body[1].id = str(l)

\* C4: a delete request for a book is refused with status 400 "Cannot delete
\* book with active loans" exactly when some loan that references the book
\* is not returned.
C4_DeleteGuard ==
  [][\A b \in BookIdInputs :
       delete_book_177(One, b)
       => ( (last'.status = 400 /\ last'.detail = "Cannot delete book with active loans")
            <=> (ValidId(b) /\ OpenLoans(to_object_id(b)) # {}) )]_vars

\* C6: no step removes a loan; a step changes a loan only by turning its
\* returned flag from false to true, and only the update of Return does; a
\* returned loan never changes; a loan appears only in the insert of a Borrow
\* that passed its checks, with returned = FALSE.
C6_LoanLifecycle ==
  [][/\ \A l \in DOMAIN loan :
          /\ l \in DOMAIN loan'
          /\ loan[l].returned => loan'[l] = loan[l]
          /\ loan'[l] # loan[l]
             => /\ loan'[l] = [loan[l] EXCEPT !.returned = TRUE]
                /\ return_book_287(One)
                /\ to_object_id(loc[One].loan_id) = l
     /\ \A l \in DOMAIN loan' \ DOMAIN loan :
          /\ loan'[l].returned = FALSE
          /\ borrow_book_270(One)]_vars

\* C6's case: a loan was borrowed and returned, its book was deleted
\* afterwards, and the loan is still on record as returned.
C6_Witness ==
  \E l \in DOMAIN loan :
    /\ loan[l].returned
    /\ to_object_id(loan[l].book_id) \notin DOMAIN book

\* C8: nothing stops a Borrow that has passed its checks.  Whatever
\* available_copies has become since it read the book, its insert adds an open
\* loan and its decrement takes 1 from the count, also from a count that is
\* 0 or less already.
C8_BorrowsRace ==
  [][\A p \in Procs :
       /\ borrow_book_270(p)
            => /\ Cardinality(DOMAIN loan') = Cardinality(DOMAIN loan) + 1
               /\ pc'[p] = "borrow_book_273"
       /\ borrow_book_273(p)
            => LET b == to_object_id(loc[p].book_id)
               IN  /\ b \in DOMAIN book
                   /\ book'[b].available_copies = book[b].available_copies - 1
                   /\ pc'[p] = "borrow_book_275"]_vars

\* C8's case: two Borrows of a book with one copy both read
\* available_copies = 1, both created their loan and both decremented: the
\* count is -1 with two open loans.
C8_Witness ==
  \E b \in DOMAIN book :
    /\ book[b].total_copies = 1
    /\ book[b].available_copies = -1
    /\ Cardinality(OpenLoans(b)) = 2
    /\ Quiescent

\* No two members on record have the same email.
UniqueEmails ==
  \A m1, m2 \in DOMAIN member : member[m1].email = member[m2].email => m1 = m2

\* C9: no two members have the same email, and a sign-up with an email on
\* record inserts nothing and answers 200 with the member that has it.
C9_EmailUnique ==
  [][/\ UniqueEmails'
     /\ \A e \in Emails :
          ( /\ create_member_191(One, e)
            /\ \E m \in DOMAIN member : member[m].email = e )
          => /\ db' = db
             /\ counter' = counter
             /\ pc'[One] = "idle"
             /\ last'.status = 200
             /\ \E m \in DOMAIN member :
                  /\ member[m].email = e
                  /\ last'.body = <<serialize(m, member[m])>>]_vars

\* C9's case: two members are on record and a sign-up with the email of the
\* first one has just been answered with the first one.
C9_Witness ==
  /\ counter.member = 2
  /\ last.op = "create_member"
  /\ last.status = 200
  /\ last.body[1].id = str(11)
  /\ member[11].email # member[12].email

\* ------------------------------------------------------ store calls that fail
\* No handler catches what a store call raises: the exception ends the request
\* with status 500 and what the request wrote before stays written.

\* borrow_book_273_raises inside a try/except that takes the loan back.
borrow_book_273_raises_undo(p) ==
  /\ pc[p] = "borrow_book_273"
  /\ loan' = DeleteOne(loan, to_object_id(loc[p].loan_id))
  /\ UNCHANGED <<book, member, counter>>
  /\ Finish(p, "borrow_book", 500, "Internal Server Error", <<>>)

\* line 273, the update_one raises: nothing is decremented.
borrow_book_273_raises(p) ==
  /\ pc[p] = "borrow_book_273"
  /\ UNCHANGED <<book, member, loan, counter>>
  /\ Finish(p, "borrow_book", 500, "Internal Server Error", <<>>)

\* line 292, the update_one raises: nothing is incremented.
return_book_292_raises(p) ==
  /\ pc[p] = "return_book_292"
  /\ UNCHANGED <<book, member, loan, counter>>
  /\ Finish(p, "return_book", 500, "Internal Server Error", <<>>)

\* The loan lifecycle, one request at a time, over a store whose second
\* write of a request may fail.
NextFail ==
  \/ \E m \in MemberIdInputs, b \in BookIdInputs, d \in DaysInputs :
       borrow_book_257(One, m, b, d)
  \/ borrow_book_264(One)
  \/ borrow_book_270(One)
  \/ borrow_book_273(One)
  \/ borrow_book_273_raises(One)
  \/ borrow_book_275(One)
  \/ \E l \in LoanIdInputs : return_book_280(One, l)
  \/ return_book_287(One)
  \/ return_book_292(One)
  \/ return_book_292_raises(One)
  \/ return_book_294(One)

SpecFail == InitLife /\ [][NextFail]_vars

\* The book a Borrow in flight is after.
BookOf(p) == to_object_id(loc[p].book_id)

\* C11 as claimed: when the decrement of a Borrow fails, the request ends in
\* an error, its loan stays open, available_copies stays as it was, and the
\* open loans of the book outnumber total_copies - available_copies.
C11_LoanWithoutDecrement ==
  [][borrow_book_273_raises(One)
       => \A b \in {BookOf(One)}, l \in {to_object_id(loc[One].loan_id)} :
            /\ last'.status = 500
            /\ db' = db
            /\ ~loan'[l].returned
            /\ Cardinality(OpenLoans(b)')
                 > book'[b].total_copies - book'[b].available_copies]_vars

\* C11, amended: when the decrement of a Borrow fails, the request ends with
\* status 500, nothing is taken back (the loan stays on record, open, and
\* available_copies stays as it was), and the open loans of the book
\* outnumber total_copies - available_copies if they were as many as that
\* before the request.
C11_NoCompensation ==
  [][borrow_book_273_raises(One)
       => \A b \in {BookOf(One)}, l \in {to_object_id(loc[One].loan_id)} :
            /\ last'.status = 500
            /\ pc'[One] = "idle"
            /\ db' = db
            /\ l \in DOMAIN loan'
            /\ ~loan'[l].returned
            /\ to_object_id(loan'[l].book_id) = b
            /\ ( Cardinality(OpenLoans(b)) - 1
                   = book[b].total_copies - book[b].available_copies )
               => Cardinality(OpenLoans(b)')
                    > book'[b].total_copies - book'[b].available_copies]_vars

\* C11's case: a Borrow has just ended with status 500 and its book has more
\* open loans than copies missing from the shelf.
C11_Witness ==
  /\ last.op = "borrow_book"
  /\ last.status = 500
  /\ \E b \in DOMAIN book :
       /\ book[b].available_copies = book[b].total_copies
       /\ Cardinality(OpenLoans(b)) = 1

\* ---------------------------------------------------------- admin edits
\* Every book has the default counts, the first is out on loan to the first
\* member, and the only requests are book updates, one at a time.
InitAdmin ==
  /\ book    = [b \in BookOids |->
                  [total_copies     |-> DefaultCopies,
                   available_copies |-> IF b = 1 THEN DefaultCopies - 1
                                                 ELSE DefaultCopies]]
  /\ member  = (11 :> [email |-> "a@lib"])
  /\ loan    = (21 :> [member_id |-> str(11), book_id |-> str(1),
                       due_date |-> DefaultDays, returned |-> FALSE])
  /\ counter = [book |-> MaxBooks, member |-> 1, loan |-> 1]
  /\ NoRequests

\* The updates name the first book, the last one or no book, and supply for
\* each count nothing, a negative number, 0 or MaxCopies.
AdminBookIdInputs == {str(1), str(MaxBooks), BadId}
AdminUpdateInputs ==
  {u \in UpdateInputs :
     \A k \in DOMAIN u : u[k] \in {MinCopies - 1, MinCopies, MaxCopies}}

NextAdmin ==
  \/ \E b \in AdminBookIdInputs, u \in AdminUpdateInputs :
       update_book_166(One, b, u)
  \/ update_book_173(One)

SpecAdmin == InitAdmin /\ [][NextAdmin]_vars

\* C12: an update of an existing book that supplies total_copies or
\* available_copies writes the supplied numbers as they are -- negative,
\* available above total, whatever the open loans -- keeps what it does not
\* supply, and goes on to read the book back; no count is compared with
\* another, with 0 or with the loans.
C12_UpdateUnchecked ==
  [][\A b \in AdminBookIdInputs, u \in AdminUpdateInputs :
       ( /\ update_book_166(One, b, u)
         /\ DOMAIN u # {}
         /\ ValidId(b)
         /\ to_object_id(b) \in DOMAIN book )
       => /\ pc'[One] = "update_book_173"
          /\ loan' = loan
          /\ DOMAIN book' = DOMAIN book
          /\ \A o \in DOMAIN book, k \in {"total_copies", "available_copies"} :
               book'[o][k] = IF o = to_object_id(b) /\ k \in DOMAIN u
                             THEN u[k]
                             ELSE book[o][k]]_vars

\* C12's case: after an update, one book has a negative available_copies,
\* one has more available than total, and one with an open loan shows
\* another count than total_copies minus its open loans.
C12_Witness ==
  /\ last.op = "update_book"
  /\ last.status = 200
  /\ \E b \in DOMAIN book : book[b].available_copies < 0
  /\ \E b \in DOMAIN book : book[b].available_copies > book[b].total_copies
  /\ \E b \in DOMAIN book :
       /\ OpenLoans(b) # {}
       /\ book[b].available_copies
            # book[b].total_copies - Cardinality(OpenLoans(b))

\* ------------------------------------------------------------ loan period
\* payload.days of a BorrowRequest: the number sent, DefaultDays when the
\* body has no "days" (<<>> here).
BorrowRequest_days(sent) == IF sent = <<>> THEN DefaultDays ELSE sent[1]

\* Borrows with no days, with days below, at and above MinDays, and with
\* days at and past the last day of the calendar.
LoanDaysInputs ==
  {BorrowRequest_days(sent) :
     sent \in {<<>>} \cup {<<d>> : d \in {MinDays - 2, MinDays - 1, MinDays,
                                         MinDays + 1, DaysToMaxDate,
                                         DaysToMaxDate + 1}}}

NextDays ==
  \/ \E b \in ConcBookIdInputs, d \in LoanDaysInputs :
       borrow_book_257(One, str(11), b, d)
  \/ borrow_book_264(One)
  \/ borrow_book_270(One)
  \/ borrow_book_273(One)
  \/ borrow_book_275(One)
  \/ \E l \in LoanIdInputs : return_book_280(One, l)
  \/ return_book_287(One)
  \/ return_book_292(One)
  \/ return_book_294(One)

SpecDays == InitLife /\ [][NextDays]_vars

\* C13: a Borrow past its checks records a loan whose due date is the
\* request's date plus 1 for every days <= 0 and plus days for every
\* days >= 1 (14 when days is not sent).
C13_LoanPeriod ==
  [][borrow_book_270(One)
       => \E l \in DOMAIN loan' \ DOMAIN loan :
            loan'[l].due_date = IF loc[One].days <= 0 THEN 1 ELSE loc[One].days]_vars

\* ------------------------------------------------- errors and conservation
\* C14: a Borrow or a Return that ends in a precondition error (status 400
\* or 404: invalid id, book, member or loan not found, no copies) has written
\* nothing: the step that reports the error writes nothing and is the first
\* step of the request or the member check of a Borrow, and the step that
\* leads to the member check is the first of the request and writes nothing
\* either.
C14_ErrorsWriteNothing ==
  [][/\ ( /\ last'.op \in {"borrow_book", "return_book"}
          /\ last'.status \in {400, 404}
          /\ last' # last )
        => /\ db' = db
           /\ pc[One] \in {"idle", "borrow_book_264"}
     /\ pc'[One] = "borrow_book_264"
        => /\ db' = db
           /\ pc[One] = "idle"]_vars

\* C14's case: with a loan on record, a Borrow has just been refused for a
\* member that does not exist.
C14_Witness ==
  /\ last.op = "borrow_book"
  /\ last.status = 404
  /\ last.detail = "Member not found"
  /\ \E l \in DOMAIN loan : ~loan[l].returned

\* C15: conservation.  Whatever available_copies plus the number of open
\* loans of a book is at the start, it is that in every state between
\* requests, Borrow and Return being the only requests and run one at a
\* time.
C15_Conservation ==
  \A b \in BookOids, v \in MinCopies .. MaxCopies :
    (book[b].available_copies + Cardinality(OpenLoans(b)) = v)
      => []( Quiescent
               => book[b].available_copies + Cardinality(OpenLoans(b)) = v )

\* C15's case: between requests, a book has one loan returned and another
\* still open.
C15_Witness ==
  /\ Quiescent
  /\ \E b \in DOMAIN book :
       /\ Cardinality(OpenLoans(b)) = 1
       /\ book[b].available_copies = book[b].total_copies - 1
       /\ \E l \in DOMAIN loan :
            to_object_id(loan[l].book_id) = b /\ loan[l].returned

\* ------------------------------------------------------ concurrent returns
\* The first book has MaxLoans copies, all out on loan to the first member;
\* the requests are Returns, interleaved at their store calls.
InitReturn ==
  /\ book    = [b \in BookOids |->
                  IF b = 1
                  THEN [total_copies |-> MaxLoans, available_copies |-> 0]
                  ELSE [total_copies     |-> DefaultCopies,
                        available_copies |-> DefaultCopies]]
  /\ member  = (11 :> [email |-> "a@lib"])
  /\ loan    = [l \in LoanOids |->
                  [member_id |-> str(11), book_id |-> str(1),
                   due_date |-> DefaultDays, returned |-> FALSE]]
  /\ counter = [book |-> MaxBooks, member |-> 1, loan |-> MaxLoans]
  /\ NoRequests

NextReturn ==
  \E p \in Procs :
    \/ \E l \in LoanIdInputs : return_book_280(p, l)
    \/ return_book_287(p)
    \/ return_book_292(p)
    \/ return_book_294(p)

SpecReturn == InitReturn /\ [][NextReturn]_vars

\* C16: however Returns interleave, a loan gives its book one copy back at
\* most: from a shelf that lacks one copy for each open loan, the copies
\* lacking never fall below the open loans, two Returns of one loan that
\* both read returned = FALSE included.
C16_OneIncrementPerLoan ==
  \A b \in DOMAIN book :
    book[b].total_copies - book[b].available_copies
      >= Cardinality(OpenLoans(b))

\* ------------------------------------------------- delete against borrow
\* Deletes and Borrows of the books in stock, each id spelled as str()
\* prints it, interleaved at their store calls.
DeleteBookIdInputs == {str(b) : b \in BookOids}

NextDelete ==
  \E p \in Procs :
    \/ \E b \in DeleteBookIdInputs : borrow_book_257(p, str(11), b, DefaultDays)
    \/ borrow_book_264(p)
    \/ borrow_book_270(p)
    \/ borrow_book_273(p)
    \/ borrow_book_275(p)
    \/ \E b \in DeleteBookIdInputs : delete_book_177(p, b)
    \/ delete_book_180(p)

SpecDelete == InitConc /\ [][NextDelete]_vars

\* C17: referential integrity.  In every state, every loan with
\* returned = FALSE names a book that is in the collection, deletes and
\* Borrows of the same book interleaved at their store calls included.
C17_OpenLoansHaveBooks ==
  \A l \in DOMAIN loan :
    ~loan[l].returned => to_object_id(loan[l].book_id) \in DOMAIN book

====
